---- MODULE Spec2Model ----
(***************************************************************************)
(* Model of the muffinpanrecipes production core:                          *)
(*   - RecipePipeline   (backend/pipeline/recipe_pipeline.py)              *)
(*   - Recipe storage   (backend/data/recipe.py)                           *)
(*   - PublishingPipeline (backend/publishing/pipeline.py)                 *)
(*   - the admin approve / reject routes (backend/admin/routes.py)         *)
(*                                                                         *)
(* Three specifications share the module:                                  *)
(*   SpecEngine   the in-memory stage engine                               *)
(*   SpecStore    Recipe.save_to_file / Recipe.transition_status alone     *)
(*   SpecPublish  record lifecycle plus the publishing pipeline            *)
(***************************************************************************)
EXTENDS Integers, Sequences, FiniteSets, TLC

(***************************************************************************)
(* Bounds                                                                  *)
(***************************************************************************)
\* cap on start_recipe calls made on one engine
MaxStarts == 2
\* cap on request_revisions calls made on one engine
MaxRevisions == 1

(***************************************************************************)
(* Generic helpers                                                         *)
(***************************************************************************)
Range(s) == {s[i] : i \in DOMAIN s}

\* number of positions of sequence s whose element satisfies Test
CountIn(s, Test(_)) == Cardinality({i \in DOMAIN s : Test(s[i])})

\* Python dict item assignment d[k] = v
DictSet(d, k, v) == [x \in (DOMAIN d) \cup {k} |-> IF x = k THEN v ELSE d[x]]

\* Python `del d[k]` / file removal
DictDel(d, k) == [x \in (DOMAIN d) \ {k} |-> d[x]]

EmptyDict == [x \in {} |-> 0]

\* every ordering of a finite set, as sequences without repetition
Orderings(S) ==
    {s \in [1..Cardinality(S) -> S] : \A i, j \in 1..Cardinality(S) : (i # j) => (s[i] # s[j])}

(***************************************************************************)
(* Stage engine: RecipePipeline                                            *)
(***************************************************************************)
IDEATION == "ideation"
RECIPE_DEVELOPMENT == "recipe_development"
PHOTOGRAPHY == "photography"
COPYWRITING == "copywriting"
CREATIVE_REVIEW == "creative_review"
REVISIONS == "revisions"
FINAL_APPROVAL == "final_approval"
DEPLOYMENT == "deployment"
COMPLETE == "complete"

PipelineStage ==
    {IDEATION, RECIPE_DEVELOPMENT, PHOTOGRAPHY, COPYWRITING, CREATIVE_REVIEW,
     REVISIONS, FINAL_APPROVAL, DEPLOYMENT, COMPLETE}

\* STAGE_FLOW.get(stage): the successor, or "None" where the dict has no key
NoStage == "None"

STAGE_FLOW_mutant_skip(stage) ==
    CASE stage = IDEATION -> RECIPE_DEVELOPMENT
      [] stage = RECIPE_DEVELOPMENT -> PHOTOGRAPHY
      [] stage = PHOTOGRAPHY -> COPYWRITING
      [] stage = COPYWRITING -> CREATIVE_REVIEW
      [] stage = CREATIVE_REVIEW -> DEPLOYMENT
      [] stage = REVISIONS -> CREATIVE_REVIEW
      [] stage = FINAL_APPROVAL -> DEPLOYMENT
      [] stage = DEPLOYMENT -> COMPLETE
      [] OTHER -> NoStage

STAGE_FLOW(stage) ==
    CASE stage = IDEATION -> RECIPE_DEVELOPMENT
      [] stage = RECIPE_DEVELOPMENT -> PHOTOGRAPHY
      [] stage = PHOTOGRAPHY -> COPYWRITING
      [] stage = COPYWRITING -> CREATIVE_REVIEW
      [] stage = CREATIVE_REVIEW -> FINAL_APPROVAL
      [] stage = REVISIONS -> CREATIVE_REVIEW
      [] stage = FINAL_APPROVAL -> DEPLOYMENT
      [] stage = DEPLOYMENT -> COMPLETE
      [] OTHER -> NoStage

\* the order in which a run without revisions visits the stages
CanonicalOrder ==
    <<IDEATION, RECIPE_DEVELOPMENT, PHOTOGRAPHY, COPYWRITING, CREATIVE_REVIEW,
      FINAL_APPROVAL, DEPLOYMENT, COMPLETE>>

EngineIds == {"r1"}

\* Work products handed to advance_stage.  A work product is a dict; the model
\* keeps its truthiness, whether it has a "photos" key, that key's value, and
\* a tag for the rest of its content.
NoneWP == [kind |-> "None", has_photos |-> FALSE, photos |-> <<>>, body |-> "None"]
EmptyWP == [kind |-> "empty_dict", has_photos |-> FALSE, photos |-> <<>>, body |-> "{}"]
PhotoWP == [kind |-> "dict", has_photos |-> TRUE, photos |-> <<"shot1.png">>, body |-> "photos"]
\* a non-empty dict without a "photos" key
RecipeWP == [kind |-> "dict", has_photos |-> FALSE, photos |-> <<>>, body |-> "recipe"]
WorkProducts == {NoneWP, EmptyWP, PhotoWP}

\* stages offered to request_revisions: one upstream of most stages, the
\* pseudo-stage, one downstream of most stages, and the terminal stage
RevisionTargets == {RECIPE_DEVELOPMENT, REVISIONS, DEPLOYMENT, COMPLETE}

\* Python truthiness of Optional[Dict]
Truthy(wp) == wp.kind = "dict"

\* work_product.get("photos", [])
GetPhotos(wp) == IF wp.has_photos THEN wp.photos ELSE <<>>

\* RecipeContext(recipe_id=..., concept=...) with the field defaults
NewContext(recipe_id) ==
    [recipe_id |-> recipe_id,
     current_stage |-> IDEATION,
     recipe_data |-> EmptyWP,
     photos |-> <<>>,
     recipe_copy |-> EmptyWP,
     revision_requests |-> <<>>,
     revision_count |-> 0,
     completed_at |-> "None"]

add_revision_request_mutant_no_count(context, stage) ==
    [context EXCEPT !.revision_requests = Append(@, stage)]

\* RecipeContext.add_revision_request
add_revision_request(context, stage) ==
    [context EXCEPT !.revision_requests = Append(@, stage),
                    !.revision_count = @ + 1]

VARIABLES
    active_recipes,      \* RecipePipeline.active_recipes: dict id -> context
    completed_recipes,   \* RecipePipeline.completed_recipes: list of contexts
    engine_result,       \* outcome of the last engine call
    stages_visited,      \* per id: stages seen since its last start_recipe, kept while no revision was requested
    revised,             \* per id: request_revisions was called since its last start
    starts,              \* number of start_recipe calls so far
    revisions,           \* number of successful request_revisions calls so far
    completions,         \* per id: number of runs of that id that reached complete
    stages_seen          \* per id: the stages its context has been in since its last start_recipe

\* what the last engine call was given and what it returned: ok is FALSE for a
\* ValueError, stage is the returned stage, wp the work product passed
EngineResult(op, id, ok, stage, wp) ==
    [op |-> op, id |-> id, ok |-> ok, stage |-> stage, wp |-> wp]

engine_vars ==
    <<active_recipes, completed_recipes, engine_result, stages_visited, revised,
      starts, revisions, completions, stages_seen>>

EngineInit ==
    /\ active_recipes = EmptyDict
    /\ completed_recipes = <<>>
    /\ engine_result = EngineResult("init", "", TRUE, NoStage, NoneWP)
    /\ stages_visited = [id \in EngineIds |-> <<>>]
    /\ revised = [id \in EngineIds |-> FALSE]
    /\ starts = 0
    /\ revisions = 0
    /\ completions = [id \in EngineIds |-> 0]
    /\ stages_seen = [id \in EngineIds |-> {}]

\* RecipePipeline.start_recipe: no check of the active set, the entry is overwritten
start_recipe(recipe_id) ==
    /\ starts < MaxStarts
    /\ active_recipes' = DictSet(active_recipes, recipe_id, NewContext(recipe_id))
    /\ engine_result' = EngineResult("start_recipe", recipe_id, TRUE, IDEATION, NoneWP)
    /\ stages_visited' = [stages_visited EXCEPT ![recipe_id] = <<IDEATION>>]
    /\ stages_seen' = [stages_seen EXCEPT ![recipe_id] = {IDEATION}]
    /\ revised' = [revised EXCEPT ![recipe_id] = FALSE]
    /\ starts' = starts + 1
    /\ UNCHANGED <<completed_recipes, revisions, completions>>

StoreWorkProduct_mutant_next_stage(context, wp) ==
    IF ~Truthy(wp) THEN context
    ELSE IF STAGE_FLOW(context.current_stage) = RECIPE_DEVELOPMENT
         THEN [context EXCEPT !.recipe_data = wp]
    ELSE IF STAGE_FLOW(context.current_stage) = PHOTOGRAPHY
         THEN [context EXCEPT !.photos = GetPhotos(wp)]
    ELSE IF STAGE_FLOW(context.current_stage) = COPYWRITING
         THEN [context EXCEPT !.recipe_copy = wp]
    ELSE context

\* the work-product branch of advance_stage (recipe_pipeline.py:165-171)
StoreWorkProduct(context, wp) ==
    IF ~Truthy(wp) THEN context
    ELSE IF context.current_stage = RECIPE_DEVELOPMENT
         THEN [context EXCEPT !.recipe_data = wp]
    ELSE IF context.current_stage = PHOTOGRAPHY
         THEN [context EXCEPT !.photos = GetPhotos(wp)]
    ELSE IF context.current_stage = COPYWRITING
         THEN [context EXCEPT !.recipe_copy = wp]
    ELSE context

advance_stage_mutant_keep_active(recipe_id, wp) ==
    IF recipe_id \notin DOMAIN active_recipes
    THEN /\ engine_result' = EngineResult("advance_stage", recipe_id, FALSE, NoStage, wp)
         /\ UNCHANGED <<active_recipes, completed_recipes, stages_visited, revised, starts, revisions, completions, stages_seen>>
    ELSE LET stored == StoreWorkProduct(active_recipes[recipe_id], wp)
             next_stage == STAGE_FLOW(stored.current_stage)
             moved == [stored EXCEPT !.current_stage = next_stage]
         IN IF next_stage = NoStage
            THEN /\ engine_result' = EngineResult("advance_stage", recipe_id, FALSE, NoStage, wp)
                 /\ UNCHANGED <<active_recipes, completed_recipes, stages_visited, revised, starts, revisions, completions, stages_seen>>
            ELSE /\ engine_result' = EngineResult("advance_stage", recipe_id, TRUE, next_stage, wp)
                 /\ stages_visited' = [stages_visited EXCEPT
                                           ![recipe_id] = IF revised[recipe_id] THEN @ ELSE Append(@, next_stage)]
                 /\ active_recipes' = DictSet(active_recipes, recipe_id, moved)
                 /\ IF next_stage = COMPLETE
                    THEN /\ completed_recipes' = Append(completed_recipes, [moved EXCEPT !.completed_at = "set"])
                         /\ completions' = [completions EXCEPT ![recipe_id] = @ + 1]
                    ELSE UNCHANGED <<completed_recipes, completions>>
                 /\ stages_seen' = [stages_seen EXCEPT ![recipe_id] = @ \cup {next_stage}]
                 /\ UNCHANGED <<revised, starts, revisions>>

\* RecipePipeline.advance_stage
advance_stage(recipe_id, wp) ==
    IF recipe_id \notin DOMAIN active_recipes
    THEN \* raise ValueError("... not found in active recipes")
         /\ engine_result' = EngineResult("advance_stage", recipe_id, FALSE, NoStage, wp)
         /\ UNCHANGED <<active_recipes, completed_recipes, stages_visited, revised, starts, revisions, completions, stages_seen>>
    ELSE LET context == active_recipes[recipe_id]
             stored == StoreWorkProduct(context, wp)
             next_stage == STAGE_FLOW(context.current_stage)
         IN IF next_stage = NoStage
            THEN \* raise ValueError("No next stage defined"); the slot write above stays
                 /\ active_recipes' = DictSet(active_recipes, recipe_id, stored)
                 /\ engine_result' = EngineResult("advance_stage", recipe_id, FALSE, NoStage, wp)
                 /\ UNCHANGED <<completed_recipes, stages_visited, revised, starts, revisions, completions, stages_seen>>
            ELSE LET moved == [stored EXCEPT !.current_stage = next_stage] IN
                 /\ engine_result' = EngineResult("advance_stage", recipe_id, TRUE, next_stage, wp)
                 /\ stages_visited' = [stages_visited EXCEPT
                                           ![recipe_id] = IF revised[recipe_id] THEN @ ELSE Append(@, next_stage)]
                 /\ IF next_stage = COMPLETE
                    THEN /\ completed_recipes' = Append(completed_recipes, [moved EXCEPT !.completed_at = "set"])
                         /\ active_recipes' = DictDel(active_recipes, recipe_id)
                         /\ completions' = [completions EXCEPT ![recipe_id] = @ + 1]
                    ELSE /\ active_recipes' = DictSet(active_recipes, recipe_id, moved)
                         /\ UNCHANGED <<completed_recipes, completions>>
                 /\ stages_seen' = [stages_seen EXCEPT ![recipe_id] = @ \cup {next_stage}]
                 /\ UNCHANGED <<revised, starts, revisions>>

\* RecipePipeline.request_revisions: any member of PipelineStage is accepted
request_revisions(recipe_id, stage_to_revise) ==
    IF recipe_id \notin DOMAIN active_recipes
    THEN \* raise ValueError("... not found")
         /\ engine_result' = EngineResult("request_revisions", recipe_id, FALSE, NoStage, NoneWP)
         /\ UNCHANGED <<active_recipes, completed_recipes, stages_visited, revised, starts, revisions, completions, stages_seen>>
    ELSE /\ revisions < MaxRevisions
         /\ LET context == add_revision_request(active_recipes[recipe_id], stage_to_revise) IN
            active_recipes' = DictSet(active_recipes, recipe_id,
                                      [context EXCEPT !.current_stage = stage_to_revise])
         /\ engine_result' = EngineResult("request_revisions", recipe_id, TRUE, stage_to_revise, NoneWP)
         /\ stages_visited' = [stages_visited EXCEPT ![recipe_id] = <<>>]
         /\ stages_seen' = [stages_seen EXCEPT ![recipe_id] = @ \cup {stage_to_revise}]
         /\ revised' = [revised EXCEPT ![recipe_id] = TRUE]
         /\ revisions' = revisions + 1
         /\ UNCHANGED <<completed_recipes, starts, completions>>

(***************************************************************************)
(* Record store and site artifacts                                         *)
(***************************************************************************)
VARIABLES
    disk,             \* data/recipes/<status>/<id>.json: status -> (id -> document)
    pages,            \* src/recipes/<slug>/index.html: slug -> page
    index,            \* src/recipes.json: the "recipes" list
    sitemap,          \* src/sitemap.xml: [exists, urls]
    template_exists,  \* src/templates/recipe_page.html is present
    last_result,      \* outcome of the last store / publisher call
    site_origin,      \* how the site artifacts of the initial state came about
    rebuilt           \* rebuild_site has regenerated the site at least once

store_vars ==
    <<disk, pages, index, sitemap, template_exists, last_result, site_origin, rebuilt>>

(***************************************************************************)
(* Production run: RecipeOrchestrator.produce_recipe                       *)
(***************************************************************************)
VARIABLES
    orch,             \* the position and the locals of the produce_recipe call
    publishers        \* the publish_recipe calls in flight: position and locals of each

vars == <<engine_vars, store_vars, orch, publishers>>

\* no produce_recipe call has been made on the orchestrator
NoRun ==
    [pc |-> "idle", recipe_id |-> "", slug |-> "", title |-> "",
     recipe_data |-> EmptyWP, photos |-> <<>>, copy_text |-> EmptyWP,
     approved |-> "None", raised_at |-> "None", stages_run |-> <<>>, advance_calls |-> <<>>]

\* the processes that call publish_recipe, and the record each one publishes
Publishers == {"p1", "p2"}
RecipeOf(p) == IF p = "p1" THEN "r1" ELSE "r2"

\* no publish_recipe call is in flight; `serialized` tells whether every call
\* so far ran from start to return with no other call in flight
NoPublishers ==
    [proc |-> [p \in Publishers |-> [pc |-> "idle", recipe |-> "None", index |-> <<>>]],
     serialized |-> TRUE]

OrchInit == orch = NoRun

PublishersInit == publishers = NoPublishers

PENDING == "pending"
APPROVED == "approved"
PUBLISHED == "published"
REJECTED == "rejected"

RecipeStatusOrder_mutant_reversed == <<REJECTED, PUBLISHED, APPROVED, PENDING>>

\* iteration order of `for status in RecipeStatus`
RecipeStatusOrder == <<PENDING, APPROVED, PUBLISHED, REJECTED>>
RecipeStatus == Range(RecipeStatusOrder)

RecipeIds == {"r1", "r2"}
Slugs == {"egg-cups", "lemon-muffins"}
Titles == {"Egg Cups", "Lemon Muffins"}

NoNotes == "None"
Notes == {NoNotes, "reviewed"}

\* Recipe(...) as the orchestrator compiles it: status defaults to pending
NewRecipe(recipe_id, slug, title) ==
    [recipe_id |-> recipe_id, slug |-> slug, title |-> title, status |-> PENDING,
     review_notes |-> NoNotes, published_at |-> "None",
     ingredients |-> <<>>, photos |-> <<>>, featured_photo |-> "None"]

\* a stored document that json.load or the Recipe model validation rejects
InvalidDoc(recipe_id) == [NewRecipe(recipe_id, "", "") EXCEPT !.status = "invalid"]

\* Recipe.load_from_file returns for this document instead of raising
Readable(doc) == doc.status \in RecipeStatus

\* the documents of a status directory; a directory that does not exist holds none
Dir(d, status) == IF status \in DOMAIN d THEN d[status] ELSE EmptyDict

\* filepath.exists() for <status>/<recipe_id>.json
FileExists(d, status, recipe_id) == recipe_id \in DOMAIN Dir(d, status)

\* Recipe.save_to_file with use_status_dir=True: the document goes to the
\* directory named by the record's status (created when missing), replacing
\* any document already there
save_to_file(d, recipe) ==
    DictSet(d, recipe.status, DictSet(Dir(d, recipe.status), recipe.recipe_id, recipe))

\* the mutation half of Recipe.transition_status (recipe.py:145-152)
WithStatus(recipe, new_status, notes) ==
    [recipe EXCEPT !.status = new_status,
                   !.review_notes = IF notes # NoNotes THEN notes ELSE @,
                   !.published_at = IF new_status = PUBLISHED THEN "set" ELSE @]

transition_status_mutant_keep_old(d, recipe, new_status, notes) ==
    save_to_file(d, WithStatus(recipe, new_status, notes))

\* Recipe.transition_status: write under the new status, then unlink the old
\* path when it exists and differs from the new one
transition_status(d, recipe, new_status, notes) ==
    LET old_status == recipe.status
        saved == save_to_file(d, WithStatus(recipe, new_status, notes))
    IN IF FileExists(saved, old_status, recipe.recipe_id) /\ old_status # new_status
       THEN [saved EXCEPT ![old_status] = DictDel(@, recipe.recipe_id)]
       ELSE saved

TransitionSteps_mutant_unlink_first(d, recipe, new_status, notes) ==
    LET old_status == recipe.status
        removed == IF FileExists(d, old_status, recipe.recipe_id) /\ old_status # new_status
                   THEN [d EXCEPT ![old_status] = DictDel(@, recipe.recipe_id)]
                   ELSE d
    IN <<removed, save_to_file(removed, WithStatus(recipe, new_status, notes))>>

\* the store after each of the two steps of Recipe.transition_status: first the
\* document written under the new status, then the old path unlinked
TransitionSteps(d, recipe, new_status, notes) ==
    <<save_to_file(d, WithStatus(recipe, new_status, notes)),
      transition_status(d, recipe, new_status, notes)>>

\* the loop of Recipe.list_by_status: a document that fails to load is logged
\* and skipped
RECURSIVE LoadEach(_, _, _, _)
LoadEach(dir, order, i, recipes) ==
    IF i > Len(order) THEN recipes
    ELSE LoadEach(dir, order, i + 1,
                  IF Readable(dir[order[i]]) THEN Append(recipes, dir[order[i]]) ELSE recipes)

list_by_status_mutant_abort(d, status, order) ==
    IF status \notin DOMAIN d THEN <<>>
    ELSE IF \E i \in DOMAIN order : ~Readable(d[status][order[i]]) THEN <<>>
    ELSE LoadEach(d[status], order, 1, <<>>)

\* Recipe.list_by_status: the readable documents of one status directory, in
\* the order the directory enumeration yields them; [] when the directory is missing
list_by_status(d, status, order) ==
    IF status \notin DOMAIN d THEN <<>>
    ELSE LoadEach(d[status], order, 1, <<>>)

\* the enumeration orders glob() may produce for a status directory
GlobOrders(d, status) == Orderings(DOMAIN Dir(d, status))

\* raise FileNotFoundError(f"Recipe not found: {recipe_id}")
NotFound == [found |-> FALSE, recipe |-> NewRecipe("", "", ""), error |-> "FileNotFoundError"]

\* Recipe.load_from_file raised on the first document found
LoadFailed == [found |-> FALSE, recipe |-> NewRecipe("", "", ""), error |-> "InvalidDocument"]

RECURSIVE load_from(_, _, _)
load_from(d, recipe_id, i) ==
    IF i > Len(RecipeStatusOrder) THEN NotFound
    ELSE IF FileExists(d, RecipeStatusOrder[i], recipe_id)
         THEN IF Readable(d[RecipeStatusOrder[i]][recipe_id])
              THEN [found |-> TRUE, recipe |-> d[RecipeStatusOrder[i]][recipe_id], error |-> "None"]
              ELSE LoadFailed
         ELSE load_from(d, recipe_id, i + 1)

\* PublishingPipeline._load_recipe: first status directory holding the id
load_recipe(d, recipe_id) == load_from(d, recipe_id, 1)

\* one entry of the "ingredients" list of the web view: f"{amount} {item}" when
\* the amount is non-empty, the item alone otherwise
FormatIngredient(ing) == IF ing.amount # "" THEN <<ing.amount, " ", ing.item>> ELSE <<ing.item>>

\* recipe.featured_photo or (recipe.photos[0] if recipe.photos else "")
WebImage(recipe) ==
    IF recipe.featured_photo \notin {"None", ""} THEN recipe.featured_photo
    ELSE IF recipe.photos # <<>> THEN recipe.photos[1] ELSE ""

recipe_to_web_format_mutant_stateful(recipe) ==
    [slug |-> recipe.slug,
     title |-> recipe.title,
     image |-> IF last_result.op = "translate" THEN "" ELSE WebImage(recipe),
     ingredients |-> [i \in DOMAIN recipe.ingredients |-> FormatIngredient(recipe.ingredients[i])]]

\* PublishingPipeline._recipe_to_web_format: slug and title are copied (as are
\* category, description and instructions), image and ingredients are derived
recipe_to_web_format(recipe) ==
    [slug |-> recipe.slug,
     title |-> recipe.title,
     image |-> WebImage(recipe),
     ingredients |-> [i \in DOMAIN recipe.ingredients |-> FormatIngredient(recipe.ingredients[i])]]

\* PublishingPipeline._generate_recipe_html: the template with the view's tokens substituted
generate_recipe_html(recipe_data) == [template |-> "recipe_page.html", data |-> recipe_data]

\* PublishingPipeline._save_recipe_page
save_recipe_page(pg, slug, html) == DictSet(pg, slug, html)

\* position of the first index entry with this slug, 0 when there is none
ExistingIdx(idx, slug) ==
    IF \E i \in DOMAIN idx : idx[i].slug = slug
    THEN CHOOSE i \in DOMAIN idx : idx[i].slug = slug /\ \A j \in 1..(i - 1) : idx[j].slug # slug
    ELSE 0

update_recipes_index_mutant_overwrite(idx, recipe_data) == <<recipe_data>>

\* PublishingPipeline._update_recipes_index: replace the entry in place or append
update_recipes_index(idx, recipe_data) ==
    LET existing_idx == ExistingIdx(idx, recipe_data.slug)
    IN IF existing_idx # 0 THEN [idx EXCEPT ![existing_idx] = recipe_data]
       ELSE Append(idx, recipe_data)

HomeUrl == [loc |-> "https://muffinpanrecipes.com/", slug |-> ""]
RecipeUrl(slug) == [loc |-> "https://muffinpanrecipes.com/recipes/", slug |-> slug]

RECURSIVE SitemapUrls(_)
SitemapUrls(idx) ==
    IF idx = <<>> THEN <<>>
    ELSE (IF Head(idx).slug # "" THEN <<RecipeUrl(Head(idx).slug)>> ELSE <<>>)
         \o SitemapUrls(Tail(idx))

\* PublishingPipeline._generate_sitemap: home page first, then one <url> per
\* index entry whose slug is non-empty
generate_sitemap(idx) == [exists |-> TRUE, urls |-> <<HomeUrl>> \o SitemapUrls(idx)]

GitCommands == {"add", "commit", "push"}
\* subprocess.run(check=True): exit 0, CalledProcessError, or an OSError when
\* the executable cannot be started
GitOutcomes == {"ok", "nonzero", "oserror"}
\* the environments tried: every command succeeds, or exactly one of them fails
GitEnvs ==
    {g \in [GitCommands -> GitOutcomes] : Cardinality({c \in GitCommands : g[c] # "ok"}) <= 1}
\* the two constructor configurations the repository uses: the admin route
\* (commit and push) and the local runner and tests (neither)
Configs == {[auto_commit |-> TRUE, auto_push |-> TRUE], [auto_commit |-> FALSE, auto_push |-> FALSE]}

\* one subprocess.run inside the try block: only CalledProcessError is caught
RunGit(outcome, rest) ==
    IF outcome = "nonzero" THEN "False"
    ELSE IF outcome = "oserror" THEN "raise"
    ELSE rest

\* PublishingPipeline._git_commit_and_push: "True", "False", or "raise" when an
\* exception leaves the method
git_commit_and_push(cfg, git) ==
    IF ~cfg.auto_commit THEN "True"
    ELSE RunGit(git["add"],
           RunGit(git["commit"],
             IF cfg.auto_push THEN RunGit(git["push"], "True") ELSE "True"))

\* the site artifacts and the record store as one value
Site(d, pg, idx, sm) == [disk |-> d, pages |-> pg, index |-> idx, sitemap |-> sm]

NoBatch ==
    [success |-> 0, failed |-> 0, total |-> 0, recipes |-> <<>>, listed |-> <<>>, calls |-> <<>>]

NoResult ==
    [op |-> "init", id |-> "", ok |-> TRUE, loaded |-> "None", git |-> "None", batch |-> NoBatch]

PublishWrites_mutant_stale_sitemap(F, recipe) ==
    LET recipe_data == recipe_to_web_format(recipe)
        html_content == generate_recipe_html(recipe_data)
    IN Site(transition_status(F.disk, recipe, PUBLISHED, "Published to live site"),
            save_recipe_page(F.pages, recipe.slug, html_content),
            update_recipes_index(F.index, recipe_data),
            generate_sitemap(F.index))

\* steps 5-8 of publish_recipe: page, index, sitemap, then the status transition
PublishWrites(F, recipe) ==
    LET recipe_data == recipe_to_web_format(recipe)
        html_content == generate_recipe_html(recipe_data)
        index1 == update_recipes_index(F.index, recipe_data)
    IN Site(transition_status(F.disk, recipe, PUBLISHED, "Published to live site"),
            save_recipe_page(F.pages, recipe.slug, html_content),
            index1,
            generate_sitemap(index1))

PublishSteps_mutant_status_first(F, recipe) ==
    LET recipe_data == recipe_to_web_format(recipe)
        moved == TransitionSteps(F.disk, recipe, PUBLISHED, "Published to live site")
        pages1 == save_recipe_page(F.pages, recipe.slug, generate_recipe_html(recipe_data))
        index1 == update_recipes_index(F.index, recipe_data)
    IN <<Site(moved[1], F.pages, F.index, F.sitemap),
         Site(moved[2], F.pages, F.index, F.sitemap),
         Site(moved[2], pages1, F.index, F.sitemap),
         Site(moved[2], pages1, index1, F.sitemap),
         Site(moved[2], pages1, index1, generate_sitemap(index1))>>

\* the site after each write of publish_recipe, in program order: the page
\* (step 5), the index (step 6), the sitemap (step 7), the document under
\* published/ and the unlink of the one under approved/ (step 8)
PublishSteps(F, recipe) ==
    LET recipe_data == recipe_to_web_format(recipe)
        moved == TransitionSteps(F.disk, recipe, PUBLISHED, "Published to live site")
        pages1 == save_recipe_page(F.pages, recipe.slug, generate_recipe_html(recipe_data))
        index1 == update_recipes_index(F.index, recipe_data)
        sitemap1 == generate_sitemap(index1)
    IN <<Site(F.disk, pages1, F.index, F.sitemap),
         Site(F.disk, pages1, index1, F.sitemap),
         Site(F.disk, pages1, index1, sitemap1),
         Site(moved[1], pages1, index1, sitemap1),
         Site(moved[2], pages1, index1, sitemap1)>>

publish_recipe_mutant_no_guard(F, tmpl, recipe_id, cfg, git) ==
    LET l == load_recipe(F.disk, recipe_id)
        g == git_commit_and_push(cfg, git)
    IN IF ~l.found
       THEN [site |-> F, ok |-> FALSE, loaded |-> "not_found", git |-> "None"]
       ELSE [site |-> PublishWrites(F, l.recipe), ok |-> (g # "raise"),
             loaded |-> l.recipe.status, git |-> g]

\* PublishingPipeline.publish_recipe.  The result carries the site after the
\* call, the returned boolean, the status the load saw and what the VCS step did.
\* Every exception inside the try block turns into a False return.
publish_recipe(F, tmpl, recipe_id, cfg, git) ==
    LET l == load_recipe(F.disk, recipe_id)
        g == git_commit_and_push(cfg, git)
    IN IF ~l.found
       THEN \* FileNotFoundError from _load_recipe
            [site |-> F, ok |-> FALSE, loaded |-> "not_found", git |-> "None"]
       ELSE IF l.recipe.status # APPROVED
       THEN [site |-> F, ok |-> FALSE, loaded |-> l.recipe.status, git |-> "None"]
       ELSE IF ~tmpl
       THEN \* FileNotFoundError from _load_template
            [site |-> F, ok |-> FALSE, loaded |-> l.recipe.status, git |-> "None"]
       ELSE [site |-> PublishWrites(F, l.recipe), ok |-> (g # "raise"),
             loaded |-> l.recipe.status, git |-> g]

BatchEntry(recipe, success) ==
    [recipe_id |-> recipe.recipe_id, title |-> recipe.title,
     status |-> IF success THEN "published" ELSE "failed"]

RECURSIVE PublishEach(_, _, _, _, _, _, _)
PublishEach(F, tmpl, listed, i, cfg, gits, results) ==
    IF i > Len(listed) THEN [site |-> F, batch |-> results]
    ELSE LET r == publish_recipe(F, tmpl, listed[i].recipe_id, cfg, gits[listed[i].recipe_id])
         IN PublishEach(r.site, tmpl, listed, i + 1, cfg, gits,
                [results EXCEPT !.success = IF r.ok THEN @ + 1 ELSE @,
                                !.failed = IF r.ok THEN @ ELSE @ + 1,
                                !.recipes = Append(@, BatchEntry(listed[i], r.ok)),
                                !.calls = Append(@, listed[i].recipe_id)])

RECURSIVE PublishUntilFailure(_, _, _, _, _, _, _)
PublishUntilFailure(F, tmpl, listed, i, cfg, gits, results) ==
    IF i > Len(listed) THEN [site |-> F, batch |-> results]
    ELSE LET r == publish_recipe(F, tmpl, listed[i].recipe_id, cfg, gits[listed[i].recipe_id])
             acc == [results EXCEPT !.success = IF r.ok THEN @ + 1 ELSE @,
                                    !.failed = IF r.ok THEN @ ELSE @ + 1,
                                    !.recipes = Append(@, BatchEntry(listed[i], r.ok)),
                                    !.calls = Append(@, listed[i].recipe_id)]
         IN IF r.ok THEN PublishUntilFailure(r.site, tmpl, listed, i + 1, cfg, gits, acc)
            ELSE [site |-> r.site, batch |-> acc]

publish_all_approved_mutant_abort(F, tmpl, order, cfg, gits) ==
    LET approved_recipes == list_by_status(F.disk, APPROVED, order)
    IN IF approved_recipes = <<>>
       THEN [site |-> F, batch |-> NoBatch]
       ELSE PublishUntilFailure(F, tmpl, approved_recipes, 1, cfg, gits,
                [NoBatch EXCEPT !.total = Len(approved_recipes), !.listed = approved_recipes])

\* PublishingPipeline.publish_all_approved; `listed` keeps what list_by_status
\* returned and `calls` the identifiers handed to publish_recipe, in call order
publish_all_approved(F, tmpl, order, cfg, gits) ==
    LET approved_recipes == list_by_status(F.disk, APPROVED, order)
    IN IF approved_recipes = <<>>
       THEN [site |-> F, batch |-> NoBatch]
       ELSE PublishEach(F, tmpl, approved_recipes, 1, cfg, gits,
                [NoBatch EXCEPT !.total = Len(approved_recipes), !.listed = approved_recipes])

RECURSIVE RebuildEach(_, _, _, _)
RebuildEach(pg, idx, published_recipes, i) ==
    IF i > Len(published_recipes) THEN [pages |-> pg, index |-> idx]
    ELSE LET recipe_data == recipe_to_web_format(published_recipes[i])
         IN RebuildEach(save_recipe_page(pg, published_recipes[i].slug, generate_recipe_html(recipe_data)),
                        Append(idx, recipe_data), published_recipes, i + 1)

rebuild_site_mutant_no_clear(F, tmpl, order) ==
    IF ~tmpl
    THEN [site |-> F, ok |-> FALSE, regenerated |-> FALSE]
    ELSE LET published_recipes == list_by_status(F.disk, PUBLISHED, order)
         IN IF published_recipes = <<>>
            THEN [site |-> F, ok |-> TRUE, regenerated |-> FALSE]
            ELSE LET built == RebuildEach(F.pages, F.index, published_recipes, 1)
                 IN [site |-> Site(F.disk, built.pages, built.index, generate_sitemap(built.index)),
                     ok |-> TRUE, regenerated |-> TRUE]

\* PublishingPipeline.rebuild_site: returns early, with success, when no
\* published record is listed; otherwise clears src/recipes and regenerates
rebuild_site(F, tmpl, order) ==
    IF ~tmpl
    THEN [site |-> F, ok |-> FALSE, regenerated |-> FALSE]
    ELSE LET published_recipes == list_by_status(F.disk, PUBLISHED, order)
         IN IF published_recipes = <<>>
            THEN [site |-> F, ok |-> TRUE, regenerated |-> FALSE]
            ELSE LET built == RebuildEach(EmptyDict, <<>>, published_recipes, 1)
                 IN [site |-> Site(F.disk, built.pages, built.index, generate_sitemap(built.index)),
                     ok |-> TRUE, regenerated |-> TRUE]

(***************************************************************************)
(* Specification of the stage engine                                       *)
(***************************************************************************)
StartRecipe == \E id \in EngineIds : start_recipe(id) /\ UNCHANGED <<store_vars, orch, publishers>>

AdvanceStage ==
    \E id \in EngineIds, wp \in WorkProducts : advance_stage(id, wp) /\ UNCHANGED <<store_vars, orch, publishers>>

RequestRevisions ==
    \E id \in EngineIds, st \in RevisionTargets : request_revisions(id, st) /\ UNCHANGED <<store_vars, orch, publishers>>

NextEngine == StartRecipe \/ AdvanceStage \/ RequestRevisions

\* the layout the test fixture creates: empty status directories, recipes.json
\* holding {"recipes": []}, no page, no sitemap, the page template in place
FreshStore ==
    /\ disk = [st \in RecipeStatus |-> EmptyDict]
    /\ pages = EmptyDict
    /\ index = <<>>
    /\ sitemap = [exists |-> FALSE, urls |-> <<>>]
    /\ template_exists = TRUE
    /\ last_result = NoResult
    /\ site_origin = "fresh"
    /\ rebuilt = FALSE

InitEngine == EngineInit /\ FreshStore /\ OrchInit /\ PublishersInit

SpecEngine == InitEngine /\ [][NextEngine]_vars

\* number of contexts in completed_recipes carrying this identifier
CompletedCount(id) == CountIn(completed_recipes, LAMBDA c : c.recipe_id = id)

IsPrefix(s, t) == Len(s) <= Len(t) /\ \A i \in DOMAIN s : s[i] = t[i]

\* C1 (as stated): a run of advance_stage calls without request_revisions
\* visits the eight stages in the canonical order, and once it has reached
\* complete the identifier is absent from active_recipes and occurs exactly
\* once in completed_recipes.
C1_AsStated ==
    \A id \in EngineIds :
        (~revised[id]) =>
            /\ IsPrefix(stages_visited[id], CanonicalOrder)
            /\ (stages_visited[id] = CanonicalOrder) =>
                  (id \notin DOMAIN active_recipes /\ CompletedCount(id) = 1)

\* C1 (amended): a run of advance_stage calls without request_revisions visits
\* the eight stages in the canonical order, and once it has reached complete
\* the identifier is absent from active_recipes and completed_recipes holds
\* exactly one context per run of that identifier that reached complete
\* (hence exactly one when the identifier had not been completed before).
C1_StageOrder ==
    \A id \in EngineIds :
        (~revised[id]) =>
            /\ IsPrefix(stages_visited[id], CanonicalOrder)
            /\ (stages_visited[id] = CanonicalOrder) =>
                  /\ id \notin DOMAIN active_recipes
                  /\ CompletedCount(id) = completions[id]
                  /\ completions[id] >= 1
                  /\ (completions[id] = 1 => CompletedCount(id) = 1)

C1_Witness ==
    \E id \in EngineIds :
        /\ ~revised[id]
        /\ stages_visited[id] = CanonicalOrder
        /\ engine_result.op = "advance_stage"
        /\ engine_result.id = id
        /\ engine_result.ok
        /\ engine_result.stage = COMPLETE
        /\ CompletedCount(id) = 1
        /\ id \notin DOMAIN active_recipes

(***************************************************************************)
(* Specification of the record store alone                                 *)
(***************************************************************************)
\* the status directories that hold a document for this identifier
DocDirs(d, recipe_id) == {st \in RecipeStatus : FileExists(d, st, recipe_id)}

Result(op, id, ok, loaded, git, batch) ==
    [op |-> op, id |-> id, ok |-> ok, loaded |-> loaded, git |-> git, batch |-> batch]

\* Recipe(..., status=...).save_to_file(...) for an identifier not stored yet
SaveRecipe ==
    \E id \in RecipeIds, slug \in Slugs, title \in Titles, status \in RecipeStatus :
        /\ DocDirs(disk, id) = {}
        /\ disk' = save_to_file(disk, [NewRecipe(id, slug, title) EXCEPT !.status = status])
        /\ last_result' = Result("save", id, TRUE, status, "None", NoBatch)
        /\ UNCHANGED <<pages, index, sitemap, template_exists, site_origin, rebuilt, engine_vars, orch, publishers>>

\* load the stored record, then Recipe.transition_status to any status; `calls`
\* keeps the requested status
TransitionStatus ==
    \E id \in RecipeIds, new_status \in RecipeStatus, notes \in Notes :
        /\ DocDirs(disk, id) # {}
        /\ LET recipe == load_recipe(disk, id).recipe IN
              /\ disk' = transition_status(disk, recipe, new_status, notes)
              /\ last_result' = Result("transition", id, TRUE, recipe.status, "None",
                                       [NoBatch EXCEPT !.calls = <<new_status>>])
        /\ UNCHANGED <<pages, index, sitemap, template_exists, site_origin, rebuilt, engine_vars, orch, publishers>>

NextStore == SaveRecipe \/ TransitionStatus

InitStore == EngineInit /\ FreshStore /\ OrchInit /\ PublishersInit

SpecStore == InitStore /\ [][NextStore]_vars

\* every document sits in the directory named by its own status field
InStatusDir(d, recipe_id) == \A st \in DocDirs(d, recipe_id) : d[st][recipe_id].status = st

\* C2: once a record has been saved, every completed transition_status call
\* leaves exactly one document for its identifier across the four status
\* directories, and that document lies in the directory named by its status.
C2_OneDocument ==
    [][\A id \in RecipeIds :
          /\ Cardinality(DocDirs(disk', id)) <= 1
          /\ (Cardinality(DocDirs(disk, id)) = 1 => Cardinality(DocDirs(disk', id)) = 1)
          /\ (last_result'.id = id => Cardinality(DocDirs(disk', id)) = 1)
          /\ InStatusDir(disk', id)]_vars

\* a record that went through published and was then moved on to rejected
C2_Witness ==
    \E id \in RecipeIds :
        /\ last_result.op = "transition"
        /\ last_result.id = id
        /\ last_result.loaded = PUBLISHED
        /\ DocDirs(disk, id) = {REJECTED}
        /\ disk[REJECTED][id].published_at = "set"

(***************************************************************************)
(* Specification of the record lifecycle and the publishing pipeline       *)
(***************************************************************************)
LegacySlug == "egg-cups"
LegacyView == [slug |-> LegacySlug, title |-> "Legacy Egg Cups", image |-> "", ingredients |-> <<>>]

\* a site generated by scripts/build_site.py from a hand-kept recipes.json:
\* one page per entry and the sitemap over the entries, no record documents
LegacyStore ==
    /\ disk = [st \in RecipeStatus |-> EmptyDict]
    /\ index = <<LegacyView>>
    /\ pages = DictSet(EmptyDict, LegacySlug, generate_recipe_html(LegacyView))
    /\ sitemap = [exists |-> TRUE, urls |-> <<HomeUrl, RecipeUrl(LegacySlug)>>]
    /\ last_result = NoResult
    /\ site_origin = "legacy"
    /\ rebuilt = FALSE

PublishInit ==
    /\ EngineInit
    /\ OrchInit
    /\ PublishersInit
    /\ \/ FreshStore
       \/ FreshStore /\ ~template_exists
       \/ LegacyStore /\ template_exists = TRUE

\* RecipeOrchestrator.produce_recipe, final step: the compiled record is saved
\* under pending/ with a fresh identifier
ProduceRecipe ==
    \E id \in RecipeIds, slug \in Slugs, title \in Titles :
        /\ DocDirs(disk, id) = {}
        /\ disk' = save_to_file(disk, NewRecipe(id, slug, title))
        /\ last_result' = Result("produce", id, TRUE, "None", "None", NoBatch)
        /\ UNCHANGED <<pages, index, sitemap, template_exists, site_origin, rebuilt, engine_vars, orch, publishers>>

\* POST /admin/recipes/{id}/approve
ApproveRecipe ==
    \E id \in RecipeIds, notes \in Notes :
        /\ IF id \notin DOMAIN disk[PENDING]
           THEN \* HTTP 404
                /\ last_result' = Result("approve", id, FALSE, "not_found", "None", NoBatch)
                /\ UNCHANGED disk
           ELSE /\ disk' = transition_status(disk, disk[PENDING][id], APPROVED, notes)
                /\ last_result' = Result("approve", id, TRUE, disk[PENDING][id].status, "None", NoBatch)
        /\ UNCHANGED <<pages, index, sitemap, template_exists, site_origin, rebuilt, engine_vars, orch, publishers>>

RejectRecipe_mutant_any_status ==
    \E id \in RecipeIds, notes \in Notes :
        /\ LET l == load_recipe(disk, id) IN
           IF l.found
           THEN /\ disk' = transition_status(disk, l.recipe, REJECTED, notes)
                /\ last_result' = Result("reject", id, TRUE, l.recipe.status, "None", NoBatch)
           ELSE /\ last_result' = Result("reject", id, FALSE, "not_found", "None", NoBatch)
                /\ UNCHANGED disk
        /\ UNCHANGED <<pages, index, sitemap, template_exists, site_origin, rebuilt, engine_vars, orch, publishers>>

\* POST /admin/recipes/{id}/reject: looks in pending/, then in approved/
RejectRecipe ==
    \E id \in RecipeIds, notes \in Notes :
        /\ IF id \in DOMAIN disk[PENDING]
           THEN /\ disk' = transition_status(disk, disk[PENDING][id], REJECTED, notes)
                /\ last_result' = Result("reject", id, TRUE, disk[PENDING][id].status, "None", NoBatch)
           ELSE IF id \in DOMAIN disk[APPROVED]
           THEN /\ disk' = transition_status(disk, disk[APPROVED][id], REJECTED, notes)
                /\ last_result' = Result("reject", id, TRUE, disk[APPROVED][id].status, "None", NoBatch)
           ELSE \* HTTP 404
                /\ last_result' = Result("reject", id, FALSE, "not_found", "None", NoBatch)
                /\ UNCHANGED disk
        /\ UNCHANGED <<pages, index, sitemap, template_exists, site_origin, rebuilt, engine_vars, orch, publishers>>

CurrentSite == Site(disk, pages, index, sitemap)

SetSite(F) ==
    /\ disk' = F.disk
    /\ pages' = F.pages
    /\ index' = F.index
    /\ sitemap' = F.sitemap

PublishRecipe ==
    \E id \in RecipeIds, cfg \in Configs, git \in GitEnvs :
        LET r == publish_recipe(CurrentSite, template_exists, id, cfg, git) IN
        /\ SetSite(r.site)
        /\ last_result' = Result("publish", id, r.ok, r.loaded, r.git, NoBatch)
        /\ UNCHANGED <<template_exists, site_origin, rebuilt, engine_vars, orch, publishers>>

PublishAllApproved ==
    \E order \in GlobOrders(disk, APPROVED), cfg \in Configs,
       gits \in [DOMAIN disk[APPROVED] -> GitEnvs] :
        LET r == publish_all_approved(CurrentSite, template_exists, order, cfg, gits) IN
        /\ SetSite(r.site)
        /\ last_result' = Result("publish_all", "", TRUE, "None", "None", r.batch)
        /\ UNCHANGED <<template_exists, site_origin, rebuilt, engine_vars, orch, publishers>>

RebuildSite ==
    \E order \in GlobOrders(disk, PUBLISHED) :
        LET r == rebuild_site(CurrentSite, template_exists, order) IN
        /\ SetSite(r.site)
        /\ last_result' = Result("rebuild", "", r.ok, "None", "None", NoBatch)
        /\ rebuilt' = (rebuilt \/ r.regenerated)
        /\ UNCHANGED <<template_exists, site_origin, engine_vars, orch, publishers>>

NextPublish ==
    \/ ProduceRecipe
    \/ ApproveRecipe
    \/ RejectRecipe
    \/ PublishRecipe
    \/ PublishAllApproved
    \/ RebuildSite

SpecPublish == PublishInit /\ [][NextPublish]_vars

IndexSlugs(idx) == {idx[i].slug : i \in DOMAIN idx}

PublishedSlugs(d) == {d[PUBLISHED][id].slug : id \in DOMAIN d[PUBLISHED]}

\* C3: publish_recipe on an identifier whose loaded record is pending,
\* rejected or already published, or which no status directory holds, returns
\* failure and leaves records, pages, index and sitemap untouched.
C3_RefusedPublishWritesNothing ==
    [][(/\ last_result'.op = "publish"
        /\ LET l == load_recipe(disk, last_result'.id)
           IN (~l.found) \/ l.recipe.status \in {PENDING, REJECTED, PUBLISHED})
       => (/\ last_result'.ok = FALSE
           /\ UNCHANGED <<disk, pages, index, sitemap>>)]_vars

\* a publish of an already published record was refused while the site has content
C3_Witness ==
    /\ last_result.op = "publish"
    /\ last_result.ok = FALSE
    /\ last_result.loaded = PUBLISHED
    /\ last_result.id \in DOMAIN disk[PUBLISHED]
    /\ index # <<>>

\* page, index entry, sitemap entry and published document of a record are in place
ArtifactsInPlace(recipe_id) ==
    /\ recipe_id \in DOMAIN disk[PUBLISHED]
    /\ recipe_id \notin DOMAIN disk[APPROVED]
    /\ LET doc == disk[PUBLISHED][recipe_id] IN
          /\ doc.status = PUBLISHED
          /\ doc.published_at = "set"
          /\ doc.slug \in DOMAIN pages
          /\ doc.slug \in IndexSlugs(index)
          /\ sitemap.exists
          /\ RecipeUrl(doc.slug) \in Range(sitemap.urls)

UniqueSlugs(idx) == \A i, j \in DOMAIN idx : (i # j) => (idx[i].slug # idx[j].slug)

\* C5 (as stated): from an index with unique slugs, publish_recipe and
\* rebuild_site keep the slugs of the index unique, and a publish of a slug
\* that is already indexed replaces the entry in place instead of appending.
C5_UniqueIndexSlugs ==
    [][/\ UniqueSlugs(index) => UniqueSlugs(index')
       /\ (/\ last_result'.op = "publish"
           /\ last_result'.ok
           /\ disk'[PUBLISHED][last_result'.id].slug \in IndexSlugs(index))
          => (/\ Len(index') = Len(index)
              /\ \A i \in DOMAIN index :
                    index'[i].slug = index[i].slug)]_vars

\* number of <url> elements of the sitemap equal to u
UrlCount(sm, u) == CountIn(sm.urls, LAMBDA x : x = u)

SitemapMatchesIndex(sm, idx) ==
    /\ sm.exists
    /\ UrlCount(sm, HomeUrl) = 1
    /\ \A slug \in IndexSlugs(idx) : UrlCount(sm, RecipeUrl(slug)) = 1
    /\ \A u \in Range(sm.urls) : u = HomeUrl \/ (u.loc = RecipeUrl("").loc /\ u.slug \in IndexSlugs(idx))

\* C6 (as stated): after a successful publish_recipe or rebuild_site the
\* sitemap holds exactly one home-page entry and exactly one entry per slug of
\* the persisted index, and nothing else.
C6_SitemapMatchesIndex ==
    (last_result.op \in {"publish", "rebuild"} /\ last_result.ok)
        => SitemapMatchesIndex(sitemap, index)

\* the two sequences hold the same elements the same number of times
SameBag(s, t) ==
    /\ Len(s) = Len(t)
    /\ \A e \in Range(s) \cup Range(t) :
          CountIn(s, LAMBDA x : x = e) = CountIn(t, LAMBDA x : x = e)

\* C7 (as stated): on a site built only by publishing records one at a time,
\* rebuild_site over the published records yields the same pages and, up to
\* order, the same index.
C7_RebuildEqualsIncremental ==
    (site_origin = "fresh" /\ ~rebuilt) =>
        \A order \in GlobOrders(disk, PUBLISHED) :
            LET r == rebuild_site(CurrentSite, TRUE, order).site
            IN r.pages = pages /\ SameBag(r.index, index)

\* C8 (as stated): after rebuild_site returns success, page directories and
\* index slugs are exactly the slugs of the published records, the empty set
\* of published records included.
C8_RebuildLeavesOnlyPublished ==
    (last_result.op = "rebuild" /\ last_result.ok) =>
        /\ DOMAIN pages = PublishedSlugs(disk)
        /\ IndexSlugs(index) = PublishedSlugs(disk)

\* C9: publish_all_approved hands every listed approved record to
\* publish_recipe exactly once, in listing order and past failures; its counts
\* satisfy success + failed = total and its outcome list has one entry per
\* listed record.
C9_BatchIsComplete ==
    (last_result.op = "publish_all") =>
        LET b == last_result.batch IN
        /\ b.success + b.failed = b.total
        /\ b.total = Len(b.listed)
        /\ Len(b.recipes) = Len(b.listed)
        /\ Len(b.calls) = Len(b.listed)
        /\ \A i \in DOMAIN b.listed :
              /\ b.calls[i] = b.listed[i].recipe_id
              /\ b.recipes[i].recipe_id = b.listed[i].recipe_id
              /\ b.recipes[i].status \in {"published", "failed"}
        /\ b.success = CountIn(b.recipes, LAMBDA e : e.status = "published")
        /\ b.failed = CountIn(b.recipes, LAMBDA e : e.status = "failed")

\* a batch of two whose first record failed and whose second was published
C9_Witness ==
    /\ last_result.op = "publish_all"
    /\ last_result.batch.total = 2
    /\ last_result.batch.recipes[1].status = "failed"
    /\ last_result.batch.recipes[2].status = "published"

\* C10 (as stated): when the VCS step of a publish of an approved record
\* fails, publish_recipe still returns success and page, index entry, sitemap
\* entry and published status stay in place.
C10_SyncFailureIsNotFatal ==
    (last_result.op = "publish" /\ last_result.git \in {"False", "raise"}) =>
        /\ last_result.ok
        /\ ArtifactsInPlace(last_result.id)

\* the status of the record with this identifier, "absent" when no directory holds it
StatusOf(d, recipe_id) ==
    IF DocDirs(d, recipe_id) = {} THEN "absent" ELSE load_recipe(d, recipe_id).recipe.status

\* the status changes the lifecycle allows
AllowedMoves ==
    {<<PENDING, APPROVED>>, <<APPROVED, PUBLISHED>>, <<PENDING, REJECTED>>, <<APPROVED, REJECTED>>}

\* C11: over completed approve, reject and publish operations (single and
\* batch), the status of a record only moves pending -> approved,
\* approved -> published, or pending/approved -> rejected; a published or
\* rejected record keeps its status, and a record only comes into being as pending.
C11_StatusLifecycle ==
    [][\A id \in RecipeIds :
          LET before == StatusOf(disk, id)
              after == StatusOf(disk', id)
          IN /\ Cardinality(DocDirs(disk', id)) <= 1
             /\ (before # after) =>
                    \/ <<before, after>> \in AllowedMoves
                    \/ (before = "absent" /\ after = PENDING /\ last_result'.op = "produce")
             /\ (before \in {PUBLISHED, REJECTED}) => (after = before /\ disk'[before][id] = disk[before][id])]_vars

\* one record was approved and then rejected while the other one is published
C11_Witness ==
    /\ last_result.op = "reject"
    /\ last_result.ok
    /\ last_result.loaded = APPROVED
    /\ last_result.id \in DOMAIN disk[REJECTED]
    /\ \E other \in RecipeIds \ {last_result.id} : other \in DOMAIN disk[PUBLISHED]

\* C12 (as stated): start_recipe on an identifier that is already active fails
\* and leaves the existing context unchanged; on an identifier that is not
\* active it creates a context at the ideation stage.
C12_StartFailsWhenActive ==
    [][(engine_result'.op = "start_recipe") =>
          LET id == engine_result'.id IN
          IF id \in DOMAIN active_recipes
          THEN /\ ~engine_result'.ok
               /\ active_recipes' = active_recipes
          ELSE /\ engine_result'.ok
               /\ active_recipes' = DictSet(active_recipes, id, NewContext(id))]_vars

\* the call advance_stage that reached complete moved the context from the
\* active set to the end of the completed list
CompletionMovesContext ==
    (engine_result'.op = "advance_stage" /\ engine_result'.ok /\ engine_result'.stage = COMPLETE) =>
        LET id == engine_result'.id
            n == Len(completed_recipes')
        IN /\ id \in DOMAIN active_recipes
           /\ active_recipes' = DictDel(active_recipes, id)
           /\ completed_recipes' =
                 Append(completed_recipes,
                        [active_recipes[id] EXCEPT !.current_stage = COMPLETE, !.completed_at = "set"])
           /\ completed_recipes'[n].recipe_id = id

\* C13 (as stated): the call that reaches complete moves the context from the
\* active set to the completed list, and every later advance_stage or
\* request_revisions call for an identifier that has completed fails and
\* changes neither the two sets nor the completed context.
C13_AsStated ==
    [][/\ CompletionMovesContext
       /\ IsPrefix(completed_recipes, completed_recipes')
       /\ \A id \in EngineIds :
             (/\ completions[id] >= 1
              /\ engine_result'.op \in {"advance_stage", "request_revisions"}
              /\ engine_result'.id = id)
             => (~engine_result'.ok /\ UNCHANGED <<active_recipes, completed_recipes>>)]_vars

\* C13 (amended): the call that reaches complete moves the context from the
\* active set to the completed list; from then on, for as long as the
\* identifier has not been started again, every advance_stage or
\* request_revisions call for it fails and changes neither set; no call ever
\* changes a context that is in the completed list.
C13_CompletedIsFinal ==
    [][/\ CompletionMovesContext
       /\ IsPrefix(completed_recipes, completed_recipes')
       /\ \A id \in EngineIds :
             (/\ completions[id] >= 1
              /\ id \notin DOMAIN active_recipes
              /\ engine_result'.op \in {"advance_stage", "request_revisions"}
              /\ engine_result'.id = id)
             => (~engine_result'.ok /\ UNCHANGED <<active_recipes, completed_recipes>>)]_vars

\* request_revisions was refused for an identifier whose run has completed
C13_Witness ==
    \E id \in EngineIds :
        /\ engine_result.op = "request_revisions"
        /\ engine_result.id = id
        /\ ~engine_result.ok
        /\ completions[id] = 1
        /\ id \notin DOMAIN active_recipes
        /\ Len(completed_recipes) = 1
        /\ completed_recipes[1].current_stage = COMPLETE

CountMatchesLog(context) == context.revision_count = Len(context.revision_requests)

\* C14: request_revisions on an active identifier succeeds for every target
\* stage, sets the current stage to the target, appends one revision record
\* naming the target and increments the counter, leaving every other field
\* alone; on an identifier that is not active it fails and changes nothing;
\* in every context the counter equals the number of revision records.
C14_RequestRevisions ==
    [][/\ (engine_result'.op = "request_revisions") =>
             LET id == engine_result'.id
                 target == engine_result'.stage
             IN IF id \in DOMAIN active_recipes
                THEN /\ engine_result'.ok
                     /\ target \in PipelineStage
                     /\ active_recipes' =
                           DictSet(active_recipes, id,
                                   [active_recipes[id] EXCEPT
                                       !.current_stage = target,
                                       !.revision_requests = Append(@, target),
                                       !.revision_count = @ + 1])
                     /\ completed_recipes' = completed_recipes
                ELSE /\ ~engine_result'.ok
                     /\ UNCHANGED <<active_recipes, completed_recipes>>
       /\ \A id \in DOMAIN active_recipes' : CountMatchesLog(active_recipes'[id])
       /\ \A i \in DOMAIN completed_recipes' : CountMatchesLog(completed_recipes'[i])]_vars

\* a context that holds photos was sent back upstream to recipe_development
C14_Witness ==
    \E id \in DOMAIN active_recipes :
        /\ engine_result.op = "request_revisions"
        /\ engine_result.ok
        /\ engine_result.stage = RECIPE_DEVELOPMENT
        /\ active_recipes[id].current_stage = RECIPE_DEVELOPMENT
        /\ active_recipes[id].photos # <<>>
        /\ active_recipes[id].revision_requests = <<RECIPE_DEVELOPMENT>>
        /\ active_recipes[id].revision_count = 1

\* the three work-product slots of a context
Slots(context) ==
    [recipe_data |-> context.recipe_data, photos |-> context.photos, recipe_copy |-> context.recipe_copy]

\* the slots the claim expects after advance_stage(id, wp) on this context
ExpectedSlots(before, wp) ==
    IF wp.kind # "dict" THEN Slots(before)
    ELSE CASE before.current_stage = RECIPE_DEVELOPMENT -> [Slots(before) EXCEPT !.recipe_data = wp]
           [] before.current_stage = PHOTOGRAPHY ->
                 [Slots(before) EXCEPT !.photos = IF wp.has_photos THEN wp.photos ELSE <<>>]
           [] before.current_stage = COPYWRITING -> [Slots(before) EXCEPT !.recipe_copy = wp]
           [] OTHER -> Slots(before)

\* C15: advance_stage with a non-empty work product stores it in the slot of
\* the stage the context is in before the move (recipe_development: the
\* product, photography: its photo list, copywriting: the product) and leaves
\* the other slots alone; at any other stage, or with an absent or empty work
\* product, the three slots are unchanged.
C15_WorkProductSlots ==
    [][(engine_result'.op = "advance_stage" /\ engine_result'.id \in DOMAIN active_recipes) =>
          LET id == engine_result'.id
              before == active_recipes[id]
              after == IF id \in DOMAIN active_recipes'
                       THEN active_recipes'[id]
                       ELSE completed_recipes'[Len(completed_recipes')]
          IN Slots(after) = ExpectedSlots(before, engine_result'.wp)]_vars

\* the photo list was stored by the call that left photography, the
\* structured content and the copy slot still holding their defaults
C15_Witness ==
    \E id \in DOMAIN active_recipes :
        /\ engine_result.op = "advance_stage"
        /\ engine_result.ok
        /\ engine_result.stage = COPYWRITING
        /\ engine_result.wp = PhotoWP
        /\ active_recipes[id].photos = PhotoWP.photos
        /\ active_recipes[id].recipe_data = EmptyWP
        /\ active_recipes[id].recipe_copy = EmptyWP
        /\ ~revised[id]

(***************************************************************************)
(* Specification of one production run of the orchestrator                 *)
(***************************************************************************)
\* identifiers produce_recipe may draw (uuid4()[:8])
OrchIds == EngineIds \cap RecipeIds

\* a collaborator's process_task raised
Raise == [kind |-> "raise", has_photos |-> FALSE, photos |-> <<>>, body |-> "exception"]

\* the copywriter's result.output
CopyWP == [kind |-> "dict", has_photos |-> FALSE, photos |-> <<>>, body |-> "copy"]

\* {"photos": photos}: a non-empty dict whatever the list holds
PhotosDict(photos) == [kind |-> "dict", has_photos |-> TRUE, photos |-> photos, body |-> "photos"]

BakerOutcomes == {Raise, RecipeWP, EmptyWP}
\* result.output.get("selected_shots", []) of the art director, as a work product
PhotographyOutcomes == {Raise, PhotosDict(<<>>), PhotosDict(<<"shot1.png">>)}
CopywritingOutcomes == {Raise, CopyWP, EmptyWP}
ReviewOutcomes == {"raise", "approved", "not_approved"}
DeploymentOutcomes == {"raise", "ok"}

\* the stage the run's context is in, "None" when the engine holds no active context for it
StageOf(recipe_id) ==
    IF recipe_id \in DOMAIN active_recipes THEN active_recipes[recipe_id].current_stage ELSE NoStage

\* bookkeeping of one self.pipeline.advance_stage call made by produce_recipe:
\* who supplied the work product and the stage the context was in at the call
AdvanceCall(by, wp) == [by |-> by, at |-> StageOf(orch.recipe_id), wp |-> wp]

\* a collaborator raised: the except clause logs and re-raises
Raised(stage) ==
    /\ orch' = [orch EXCEPT !.pc = "raised", !.raised_at = stage,
                            !.stages_run = Append(@, stage)]
    /\ UNCHANGED <<engine_vars, store_vars, publishers>>

\* produce_recipe up to and including self.pipeline.start_recipe
OrchStart ==
    \E id \in OrchIds, slug \in Slugs, title \in Titles :
        /\ orch.pc = "idle"
        /\ DocDirs(disk, id) = {}
        /\ start_recipe(id)
        /\ orch' = [orch EXCEPT !.pc = "baker", !.recipe_id = id, !.slug = slug, !.title = title]
        /\ UNCHANGED <<store_vars, publishers>>

\* stage 1: _execute_stage_baker, then advance_stage(recipe_id, work_product=recipe_data)
OrchBaker ==
    \E out \in BakerOutcomes :
        /\ orch.pc = "baker"
        /\ IF out = Raise THEN Raised("baker")
           ELSE /\ advance_stage(orch.recipe_id, out)
                /\ orch' = [orch EXCEPT !.pc = IF engine_result'.ok THEN "photography" ELSE "raised",
                                        !.recipe_data = out,
                                        !.stages_run = Append(@, "baker"),
                                        !.advance_calls = Append(@, AdvanceCall("baker", out))]
                /\ UNCHANGED <<store_vars, publishers>>

OrchPhotography_mutant_swallow ==
    \E out \in PhotographyOutcomes :
        /\ orch.pc = "photography"
        /\ LET wp == IF out = Raise THEN PhotosDict(<<>>) ELSE out IN
           /\ advance_stage(orch.recipe_id, wp)
           /\ orch' = [orch EXCEPT !.pc = IF engine_result'.ok THEN "copywriting" ELSE "raised",
                                   !.photos = wp.photos,
                                   !.raised_at = IF out = Raise THEN "photography" ELSE @,
                                   !.stages_run = Append(@, "photography"),
                                   !.advance_calls = Append(@, AdvanceCall("art_director", wp))]
           /\ UNCHANGED <<store_vars, publishers>>

\* stage 2: _execute_stage_photography, then advance_stage(recipe_id, {"photos": photos})
OrchPhotography ==
    \E out \in PhotographyOutcomes :
        /\ orch.pc = "photography"
        /\ IF out = Raise THEN Raised("photography")
           ELSE /\ advance_stage(orch.recipe_id, out)
                /\ orch' = [orch EXCEPT !.pc = IF engine_result'.ok THEN "copywriting" ELSE "raised",
                                        !.photos = out.photos,
                                        !.stages_run = Append(@, "photography"),
                                        !.advance_calls = Append(@, AdvanceCall("art_director", out))]
                /\ UNCHANGED <<store_vars, publishers>>

\* stage 3: _execute_stage_copywriting, then advance_stage(recipe_id, work_product=copy_text)
OrchCopywriting ==
    \E out \in CopywritingOutcomes :
        /\ orch.pc = "copywriting"
        /\ IF out = Raise THEN Raised("copywriting")
           ELSE /\ advance_stage(orch.recipe_id, out)
                /\ orch' = [orch EXCEPT !.pc = IF engine_result'.ok THEN "review" ELSE "raised",
                                        !.copy_text = out,
                                        !.stages_run = Append(@, "copywriting"),
                                        !.advance_calls = Append(@, AdvanceCall("copywriter", out))]
                /\ UNCHANGED <<store_vars, publishers>>

\* stage 4: _execute_stage_review and, when approved, the first of the two
\* advance_stage(recipe_id) calls
OrchReview ==
    \E out \in ReviewOutcomes :
        /\ orch.pc = "review"
        /\ IF out = "raise" THEN Raised("review")
           ELSE IF out = "not_approved"
           THEN /\ orch' = [orch EXCEPT !.pc = "deployment", !.approved = "False",
                                        !.stages_run = Append(@, "review")]
                /\ UNCHANGED <<engine_vars, store_vars, publishers>>
           ELSE /\ advance_stage(orch.recipe_id, NoneWP)
                /\ orch' = [orch EXCEPT !.pc = IF engine_result'.ok THEN "approved" ELSE "raised",
                                        !.approved = "True",
                                        !.stages_run = Append(@, "review"),
                                        !.advance_calls = Append(@, AdvanceCall("orchestrator", NoneWP))]
                /\ UNCHANGED <<store_vars, publishers>>

\* the second advance_stage(recipe_id) call of the approved branch
OrchApproved ==
    /\ orch.pc = "approved"
    /\ advance_stage(orch.recipe_id, NoneWP)
    /\ orch' = [orch EXCEPT !.pc = IF engine_result'.ok THEN "deployment" ELSE "raised",
                            !.advance_calls = Append(@, AdvanceCall("orchestrator", NoneWP))]
    /\ UNCHANGED <<store_vars, publishers>>

\* RecipeOrchestrator._compile_recipe followed by recipe.save_to_file(recipes_dir)
CompileAndSave(d, recipe_id, slug, title) == save_to_file(d, NewRecipe(recipe_id, slug, title))

\* stage 5 to the return: _execute_stage_deployment, the last advance_stage
\* call, _compile_recipe, save_to_file, notify_recipe_ready (which never raises)
OrchDeployment ==
    \E out \in DeploymentOutcomes :
        /\ orch.pc = "deployment"
        /\ IF out = "raise" THEN Raised("deployment")
           ELSE /\ advance_stage(orch.recipe_id, NoneWP)
                /\ orch' = [orch EXCEPT !.pc = IF engine_result'.ok THEN "returned" ELSE "raised",
                                        !.stages_run = Append(@, "deployment"),
                                        !.advance_calls = Append(@, AdvanceCall("orchestrator", NoneWP))]
                /\ disk' = IF engine_result'.ok
                           THEN CompileAndSave(disk, orch.recipe_id, orch.slug, orch.title)
                           ELSE disk
                /\ last_result' = IF engine_result'.ok
                                  THEN Result("produce", orch.recipe_id, TRUE, "None", "None", NoBatch)
                                  ELSE last_result
                /\ UNCHANGED <<pages, index, sitemap, template_exists, site_origin, rebuilt, publishers>>

NextOrchestrator ==
    \/ OrchStart
    \/ OrchBaker
    \/ OrchPhotography
    \/ OrchCopywriting
    \/ OrchReview
    \/ OrchApproved
    \/ OrchDeployment

InitOrchestrator == EngineInit /\ FreshStore /\ OrchInit /\ PublishersInit

SpecOrchestrator == InitOrchestrator /\ [][NextOrchestrator]_vars

\* the engine's context of this run, wherever the engine holds it
RunContexts(recipe_id) ==
    {active_recipes[id] : id \in {recipe_id} \cap DOMAIN active_recipes}
        \cup {completed_recipes[i] : i \in {j \in DOMAIN completed_recipes :
                                                completed_recipes[j].recipe_id = recipe_id}}

\* C16 (as stated): after produce_recipe has returned, the engine holds
\* exactly one completed context for the run's identifier, at stage complete
\* with a completion timestamp, the active set is empty, and exactly one
\* document with that identifier is on disk, in pending/ with status pending.
C16_RunCompletes ==
    (orch.pc = "returned") =>
        /\ CompletedCount(orch.recipe_id) = 1
        /\ \A i \in DOMAIN completed_recipes :
              /\ completed_recipes[i].current_stage = COMPLETE
              /\ completed_recipes[i].completed_at = "set"
        /\ active_recipes = EmptyDict
        /\ DocDirs(disk, orch.recipe_id) = {PENDING}
        /\ disk[PENDING][orch.recipe_id].status = PENDING

\* C17 (as stated): every advance_stage call of produce_recipe that carries a
\* collaborator's output is made while the context is at that collaborator's
\* stage (baker: recipe_development, art director: photography, copywriter:
\* copywriting), and after the run the context's structured-content, photo and
\* copy slots hold the baker's, art director's and copywriter's outputs.
C17_WorkProductsMatchStage ==
    /\ \A i \in DOMAIN orch.advance_calls :
          LET call == orch.advance_calls[i] IN
          /\ (call.by = "baker") => (call.at = RECIPE_DEVELOPMENT)
          /\ (call.by = "art_director") => (call.at = PHOTOGRAPHY)
          /\ (call.by = "copywriter") => (call.at = COPYWRITING)
    /\ (orch.pc = "returned") =>
          \A context \in RunContexts(orch.recipe_id) :
              /\ context.recipe_data = orch.recipe_data
              /\ context.photos = orch.photos
              /\ context.recipe_copy = orch.copy_text

\* the collaborator stages in the order produce_recipe runs them
StageOrder == <<"baker", "photography", "copywriting", "review", "deployment">>

\* the advance_stage calls produce_recipe has made when the collaborator of
\* this stage is asked: three before the review, and two more after an approval
AdvancesBefore(stage) ==
    CASE stage = "baker" -> {0}
      [] stage = "photography" -> {1}
      [] stage = "copywriting" -> {2}
      [] stage = "review" -> {3}
      [] stage = "deployment" -> {3, 5}

\* C18: when a stage's collaborator raises during produce_recipe, the error
\* reaches the caller, the raising stage is the last one executed, the engine
\* has seen no advance_stage call beyond those made before that stage, and no
\* status directory holds a document of the run.
C18_FailFast ==
    (orch.raised_at # "None") =>
        /\ orch.pc = "raised"
        /\ IsPrefix(orch.stages_run, StageOrder)
        /\ orch.stages_run[Len(orch.stages_run)] = orch.raised_at
        /\ Len(orch.advance_calls) \in AdvancesBefore(orch.raised_at)
        /\ stages_visited[orch.recipe_id] = SubSeq(CanonicalOrder, 1, 1 + Len(orch.advance_calls))
        /\ orch.recipe_id \in DOMAIN active_recipes
        /\ completed_recipes = <<>>
        /\ DocDirs(disk, orch.recipe_id) = {}

\* the art director raised after the baker's stage had been advanced
C18_Witness ==
    /\ orch.pc = "raised"
    /\ orch.raised_at = "photography"
    /\ orch.stages_run = <<"baker", "photography">>
    /\ Len(orch.advance_calls) = 1
    /\ engine_result.op = "advance_stage"
    /\ engine_result.stage = RECIPE_DEVELOPMENT
    /\ \A st \in RecipeStatus : disk[st] = EmptyDict

(***************************************************************************)
(* Specification of the read operations over an arbitrary record store     *)
(***************************************************************************)
\* what a status directory may hold for an identifier.  An interrupted
\* transition_status (document written under the new status, old one not yet
\* unlinked) leaves an identifier in two directories; a truncated or
\* hand-edited file is a document that does not load.
DocStates == {"absent", "valid", "invalid"}

\* the document save_to_file wrote for this identifier under this status
StoredDoc(recipe_id, status) ==
    [NewRecipe(recipe_id, "egg-cups", "Egg Cups") EXCEPT !.status = status]

\* the store with these status directories and this content
StoreOf(dirs, layout) ==
    [st \in dirs |->
        [id \in {r \in RecipeIds : layout[st, r] # "absent"} |->
            IF layout[st, id] = "valid" THEN StoredDoc(id, st) ELSE InvalidDoc(id)]]

ReadInit ==
    /\ EngineInit
    /\ OrchInit
    /\ PublishersInit
    /\ \E dirs \in SUBSET RecipeStatus, layout \in [RecipeStatus \X RecipeIds -> DocStates] :
           disk = StoreOf(dirs, layout)
    /\ pages = EmptyDict
    /\ index = <<>>
    /\ sitemap = [exists |-> FALSE, urls |-> <<>>]
    /\ template_exists = TRUE
    /\ last_result = NoResult
    /\ site_origin = "fresh"
    /\ rebuilt = FALSE

\* PublishingPipeline._load_recipe(recipe_id)
LoadRecipe ==
    \E id \in RecipeIds :
        LET l == load_recipe(disk, id) IN
        /\ last_result' = Result("load", id, l.found, l.error, "None",
                                 [NoBatch EXCEPT !.listed = IF l.found THEN <<l.recipe>> ELSE <<>>])
        /\ UNCHANGED <<disk, pages, index, sitemap, template_exists, site_origin, rebuilt, engine_vars, orch, publishers>>

\* Recipe.list_by_status(base_dir, status); `calls` keeps the enumeration order
ListByStatus ==
    \E status \in RecipeStatus :
        \E order \in GlobOrders(disk, status) :
            /\ last_result' = Result("list", status, TRUE, "None", "None",
                                     [NoBatch EXCEPT !.listed = list_by_status(disk, status, order),
                                                     !.calls = order])
            /\ UNCHANGED <<disk, pages, index, sitemap, template_exists, site_origin, rebuilt, engine_vars, orch, publishers>>

NextRead == LoadRecipe \/ ListByStatus

SpecRead == ReadInit /\ [][NextRead]_vars

\* the order the specification fixes for the scan
ScanOrder == <<"pending", "approved", "published", "rejected">>

\* the first directory, in the scan order, that holds the identifier
FirstHolder(d, recipe_id) ==
    ScanOrder[CHOOSE i \in DOMAIN ScanOrder :
                  /\ FileExists(d, ScanOrder[i], recipe_id)
                  /\ \A j \in 1..(i - 1) : ~FileExists(d, ScanOrder[j], recipe_id)]

\* C19: a load by identifier returns the document of the first of pending,
\* approved, published, rejected that holds the identifier, also when a
\* later directory holds it too, and fails with NotFound when none holds it.
\* (When the first document does not load, the load fails with that error: it
\* neither falls through to a later directory nor reports NotFound.)
C19_LoadOrder ==
    (last_result.op = "load") =>
        LET id == last_result.id IN
        IF DocDirs(disk, id) = {}
        THEN ~last_result.ok /\ last_result.loaded = "FileNotFoundError"
        ELSE LET doc == disk[FirstHolder(disk, id)][id] IN
             IF Readable(doc)
             THEN /\ last_result.ok
                  /\ last_result.batch.listed = <<doc>>
                  /\ doc.status = FirstHolder(disk, id)
             ELSE ~last_result.ok /\ last_result.loaded # "FileNotFoundError"

\* the identifier is in approved/ and in rejected/ and the approved document came back
C19_Witness ==
    /\ last_result.op = "load"
    /\ last_result.ok
    /\ DocDirs(disk, last_result.id) = {APPROVED, REJECTED}
    /\ Readable(disk[REJECTED][last_result.id])
    /\ last_result.batch.listed[1].status = APPROVED

\* the readable documents of a directory in this enumeration order
RECURSIVE ReadableIn(_, _)
ReadableIn(dir, order) ==
    IF order = <<>> THEN <<>>
    ELSE (IF dir[Head(order)].status \in {"pending", "approved", "published", "rejected"}
          THEN <<dir[Head(order)]>> ELSE <<>>) \o ReadableIn(dir, Tail(order))

\* C20: list_by_status returns normally with exactly the readable documents
\* of the status directory, in enumeration order, whatever unreadable
\* documents lie among them, and with the empty list when the directory
\* does not exist.
C20_ListSkipsCorrupt ==
    (last_result.op = "list") =>
        LET status == last_result.id
            listed == last_result.batch.listed
        IN /\ last_result.ok
           /\ IF status \notin DOMAIN disk
              THEN listed = <<>>
              ELSE /\ listed = ReadableIn(disk[status], last_result.batch.calls)
                   /\ Range(listed) = {disk[status][id] : id \in {r \in DOMAIN disk[status] : Readable(disk[status][r])}}

\* an unreadable document was enumerated first and the readable one after it was returned
C20_Witness ==
    /\ last_result.op = "list"
    /\ Len(last_result.batch.calls) = 2
    /\ ~Readable(disk[last_result.id][last_result.batch.calls[1]])
    /\ last_result.batch.listed = <<disk[last_result.id][last_result.batch.calls[2]]>>

\* C27 (as stated): every context in the active set has a current stage other
\* than complete, and every context in the completed list has current stage complete.
C27_ActiveNotComplete ==
    /\ \A id \in DOMAIN active_recipes : active_recipes[id].current_stage # COMPLETE
    /\ \A i \in DOMAIN completed_recipes : completed_recipes[i].current_stage = COMPLETE

\* the seven stages that precede complete in the fixed sequence
WorkingStages ==
    {IDEATION, RECIPE_DEVELOPMENT, PHOTOGRAPHY, COPYWRITING, CREATIVE_REVIEW,
     FINAL_APPROVAL, DEPLOYMENT}

\* C29 (as stated): whatever request_revisions calls were interleaved, a
\* context that advance_stage moves to the completed list has been at each of
\* the seven stages from ideation to deployment since it was started.
C29_NoStageSkipped ==
    [][(engine_result'.op = "advance_stage" /\ engine_result'.ok /\ engine_result'.stage = COMPLETE)
          => (WorkingStages \subseteq stages_seen'[engine_result'.id])]_vars

\* C30 (as stated): when the creative review reports approved = false,
\* produce_recipe saves no record for the run and does not execute the
\* deployment stage.
C30_OnlyApprovedIsSaved ==
    (orch.approved = "False") =>
        /\ DocDirs(disk, orch.recipe_id) = {}
        /\ "deployment" \notin Range(orch.stages_run)

\* C28 (as stated): whenever publish_recipe returns failure, every status
\* directory holds what it held before the call; in particular the record is
\* not in published status unless it was before.
C28_FailedPublishKeepsStatus ==
    [][(last_result'.op = "publish" /\ ~last_result'.ok) =>
          /\ disk' = disk
          /\ StatusOf(disk', last_result'.id) = StatusOf(disk, last_result'.id)]_vars


----------------------------------------------------------------------------
\* SpecTranslate: the record-to-web-view translation applied to stored records

MaxTranslations == 3

FeaturedPhotos == {"None", "hero.png"}
PhotoLists == {<<>>, <<"shot1.png", "shot2.png">>}
IngredientLists ==
    {<<>>,
     <<[amount |-> "2 large", item |-> "Eggs"]>>,
     <<[amount |-> "", item |-> "Salt"], [amount |-> "1 cup", item |-> "Cheese"]>>}

\* a record as the orchestrator compiled and an administrator approved it
ApprovedRecord(recipe_id, slug, title, featured, photos, ingredients) ==
    [NewRecipe(recipe_id, slug, title) EXCEPT !.status = APPROVED,
                                              !.featured_photo = featured,
                                              !.photos = photos,
                                              !.ingredients = ingredients]

TranslateInit ==
    /\ EngineInit
    /\ OrchInit
    /\ PublishersInit
    /\ \E f1, f2 \in FeaturedPhotos, p1, p2 \in PhotoLists, g1, g2 \in IngredientLists :
           disk = [[st \in RecipeStatus |-> EmptyDict] EXCEPT ![APPROVED] =
                      DictSet(DictSet(EmptyDict, "r1",
                                      ApprovedRecord("r1", "egg-cups", "Egg Cups", f1, p1, g1)),
                              "r2", ApprovedRecord("r2", "lemon-muffins", "Lemon Muffins", f2, p2, g2))]
    /\ pages = EmptyDict
    /\ index = <<>>
    /\ sitemap = [exists |-> FALSE, urls |-> <<>>]
    /\ template_exists = TRUE
    /\ last_result = NoResult
    /\ site_origin = "fresh"
    /\ rebuilt = FALSE

\* recipe = self._load_recipe(recipe_id); self._recipe_to_web_format(recipe).
\* `listed` is the returned view, `recipes` the views returned so far in the run
TranslateRecipe ==
    \E id \in RecipeIds :
        LET l == load_recipe(disk, id)
            view == recipe_to_web_format(l.recipe)
        IN  /\ l.found
            /\ Len(last_result.batch.recipes) < MaxTranslations
            /\ last_result' = Result("translate", id, TRUE, "None", "None",
                                     [NoBatch EXCEPT !.listed = <<view>>,
                                                     !.recipes = Append(last_result.batch.recipes,
                                                                        [id |-> id, view |-> view])])
            /\ UNCHANGED <<disk, pages, index, sitemap, template_exists, site_origin, rebuilt,
                           engine_vars, orch, publishers>>

NextTranslate == TranslateRecipe

SpecTranslate == TranslateInit /\ [][NextTranslate]_vars

----------------------------------------------------------------------------
\* C22: rebuild_site is idempotent: from every state of the store, running it
\* twice in succession over the unchanged recipe directory (which is enumerated
\* in the same order both times) produces the same pages, the same index
\* entries and the same sitemap entries as running it once.
C22_RebuildIdempotent ==
    \A order \in GlobOrders(disk, PUBLISHED) :
        LET once == rebuild_site(CurrentSite, template_exists, order)
            twice == rebuild_site(once.site, template_exists, order)
        IN  once.ok =>
               /\ twice.ok
               /\ twice.site.pages = once.site.pages
               /\ twice.site.index = once.site.index
               /\ twice.site.sitemap = once.site.sitemap
               /\ twice.site.disk = once.site.disk

\* a rebuild has just regenerated a site of two published records, over a site
\* that held other content before, and a further rebuild reproduces it
C22_Witness ==
    /\ last_result.op = "rebuild" /\ last_result.ok /\ rebuilt
    /\ Len(index) = 2
    /\ Cardinality(DOMAIN disk[PUBLISHED]) = 2
    /\ \E order \in GlobOrders(disk, PUBLISHED) :
           rebuild_site(CurrentSite, template_exists, order).site = CurrentSite


----------------------------------------------------------------------------
\* SpecTransition: the record store with a process that can die between the
\* two steps of a status transition

\* the process dies after transition_status wrote the new document and before
\* it unlinked the old one
CrashInTransition ==
    \E id \in RecipeIds, new_status \in RecipeStatus, notes \in Notes :
        /\ DocDirs(disk, id) # {}
        /\ LET recipe == load_recipe(disk, id).recipe IN
              /\ disk' = TransitionSteps(disk, recipe, new_status, notes)[1]
              /\ last_result' = Result("crash_transition", id, FALSE, recipe.status, "None",
                                       [NoBatch EXCEPT !.calls = <<new_status>>])
        /\ UNCHANGED <<pages, index, sitemap, template_exists, site_origin, rebuilt, engine_vars, orch, publishers>>

NextTransition == TransitionStatus \/ CrashInTransition

\* one record, saved under any of the four statuses
InitTransition ==
    /\ EngineInit
    /\ OrchInit
    /\ PublishersInit
    /\ \E status \in RecipeStatus :
           disk = save_to_file([st \in RecipeStatus |-> EmptyDict],
                               [NewRecipe("r1", "egg-cups", "Egg Cups") EXCEPT !.status = status])
    /\ pages = EmptyDict
    /\ index = <<>>
    /\ sitemap = [exists |-> FALSE, urls |-> <<>>]
    /\ template_exists = TRUE
    /\ last_result = NoResult
    /\ site_origin = "fresh"
    /\ rebuilt = FALSE

SpecTransition == InitTransition /\ [][NextTransition]_vars

DocCount(d, recipe_id) == Cardinality(DocDirs(d, recipe_id))

\* the step is a completed transition of this identifier to the status it had
SameStatusTransition(recipe_id) ==
    /\ last_result'.op = "transition"
    /\ last_result'.id = recipe_id
    /\ last_result'.batch.calls = <<last_result'.loaded>>

\* C25 (as stated): at every point of a transition, crash states included, at
\* least one and at most two documents exist for the identifier, and a
\* transition to the record's current status leaves exactly one document.
C25_AsStated ==
    [][\A id \in RecipeIds :
          /\ DocDirs(disk, id) # {} => DocCount(disk', id) \in {1, 2}
          /\ SameStatusTransition(id) => DocCount(disk', id) = 1]_vars

\* C25 (amended): no step of a transition removes the identifier's last
\* document and each step adds at most one; a transition that starts from a
\* single document has at most two at any point, two only where the process
\* died between the write and the unlink, and a transition of a single document
\* to its current status leaves exactly one.
C25_WriteBeforeDelete ==
    [][\A id \in RecipeIds :
          /\ DocDirs(disk, id) # {} => DocCount(disk', id) >= 1
          /\ DocCount(disk', id) <= DocCount(disk, id) + 1
          /\ DocCount(disk, id) = 1 =>
                /\ DocCount(disk', id) \in {1, 2}
                /\ DocCount(disk', id) = 2 => last_result'.op = "crash_transition"
                /\ SameStatusTransition(id) => DocCount(disk', id) = 1]_vars

\* a process died between the two steps of a transition that started from a
\* single document: the record is visible under two statuses
C25_Witness ==
    /\ last_result.op = "crash_transition"
    /\ DocCount(disk, last_result.id) = 2
    /\ last_result.batch.calls # <<last_result.loaded>>
    /\ DocDirs(disk, last_result.id) = {last_result.loaded, last_result.batch.calls[1]}


----------------------------------------------------------------------------
\* SpecCrash: the record lifecycle and the publisher, with a process that can
\* die at the step boundaries of publish_recipe and of a review transition

CrashPoints == {"after_page", "after_index", "after_sitemap", "after_write_new"}
CrashStep(point) ==
    CASE point = "after_page" -> 1
      [] point = "after_index" -> 2
      [] point = "after_sitemap" -> 3
      [] point = "after_write_new" -> 4

\* publish_recipe passes its guards and the process dies after one of its
\* writes; `calls` keeps the boundary
CrashInPublish ==
    \E id \in RecipeIds, point \in CrashPoints :
        LET l == load_recipe(disk, id) IN
        /\ l.found
        /\ l.recipe.status = APPROVED
        /\ template_exists
        /\ SetSite(PublishSteps(CurrentSite, l.recipe)[CrashStep(point)])
        /\ last_result' = Result("crash_publish", id, FALSE, l.recipe.status, "None",
                                 [NoBatch EXCEPT !.calls = <<point>>])
        /\ UNCHANGED <<template_exists, site_origin, rebuilt, engine_vars, orch, publishers>>

\* the approve or reject handler dies between the two steps of its transition
CrashInReview ==
    \E id \in RecipeIds, new_status \in {APPROVED, REJECTED} :
        /\ \/ id \in DOMAIN disk[PENDING]
           \/ new_status = REJECTED /\ id \in DOMAIN disk[APPROVED]
        /\ LET recipe == IF id \in DOMAIN disk[PENDING] THEN disk[PENDING][id]
                         ELSE disk[APPROVED][id]
           IN /\ disk' = TransitionSteps(disk, recipe, new_status, NoNotes)[1]
              /\ last_result' = Result("crash_transition", id, FALSE, recipe.status, "None",
                                       [NoBatch EXCEPT !.calls = <<new_status>>])
        /\ UNCHANGED <<pages, index, sitemap, template_exists, site_origin, rebuilt, engine_vars, orch, publishers>>

NextCrash ==
    \/ ApproveRecipe
    \/ RejectRecipe
    \/ PublishRecipe
    \/ RebuildSite
    \/ CrashInPublish
    \/ CrashInReview

\* two produced records, the first one approved, the second one pending or
\* approved, over a fresh site
InitCrash ==
    /\ EngineInit
    /\ OrchInit
    /\ PublishersInit
    /\ \E slug2 \in Slugs, status2 \in {PENDING, APPROVED} :
           disk = save_to_file(
                      save_to_file([st \in RecipeStatus |-> EmptyDict],
                                   [NewRecipe("r1", "egg-cups", "Egg Cups") EXCEPT !.status = APPROVED]),
                      [NewRecipe("r2", slug2, "Lemon Muffins") EXCEPT !.status = status2])
    /\ pages = EmptyDict
    /\ index = <<>>
    /\ sitemap = [exists |-> FALSE, urls |-> <<>>]
    /\ template_exists = TRUE
    /\ last_result = NoResult
    /\ site_origin = "fresh"
    /\ rebuilt = FALSE

SpecCrash == InitCrash /\ [][NextCrash]_vars

\* C26: publish_recipe moves the record to published/ only after page, index
\* entry and sitemap are written: in every state reached by serialized calls,
\* the states left by a crash between steps included, every record in
\* published/ has its slug in the persisted index.
C26_PublishedImpliesIndexed ==
    \A id \in DOMAIN disk[PUBLISHED] : disk[PUBLISHED][id].slug \in IndexSlugs(index)

\* a publish died between writing the document under published/ and unlinking
\* the one under approved/; the slug is indexed
C26_Witness ==
    /\ last_result.op = "crash_publish"
    /\ last_result.batch.calls = <<"after_write_new">>
    /\ last_result.id \in DOMAIN disk[PUBLISHED]
    /\ last_result.id \in DOMAIN disk[APPROVED]
    /\ disk[PUBLISHED][last_result.id].slug \in IndexSlugs(index)

\* pages, index and sitemap describe exactly the published records
SiteAgreesWithPublished(F) ==
    /\ DOMAIN F.pages = PublishedSlugs(F.disk)
    /\ IndexSlugs(F.index) = PublishedSlugs(F.disk)
    /\ Len(F.index) = Cardinality(PublishedSlugs(F.disk))
    /\ IF F.sitemap.exists THEN SitemapMatchesIndex(F.sitemap, F.index)
       ELSE PublishedSlugs(F.disk) = {}

\* C21: when publish_recipe or a status transition has died at a step
\* boundary, a rebuild_site that follows brings pages, index and sitemap into
\* agreement with the set of records in published status.
C21_RebuildRecovers ==
    [][(last_result.op \in {"crash_publish", "crash_transition"} /\
        last_result'.op = "rebuild" /\ last_result'.ok)
          => SiteAgreesWithPublished(Site(disk', pages', index', sitemap'))]_vars


----------------------------------------------------------------------------
\* SpecConcurrent: two publish_recipe calls for two approved records, each file
\* read and each file write a step of its own, with nothing serializing them

PublishNote == "Published to live site"

\* the position of one call moves on; the run stays serialized only while the
\* other call is not in flight
Step(p, pc, recipe, idx) ==
    [proc |-> [publishers.proc EXCEPT ![p] = [pc |-> pc, recipe |-> recipe, index |-> idx]],
     serialized |-> publishers.serialized /\
                    \A q \in Publishers \ {p} : publishers.proc[q].pc \in {"idle", "done"}]

\* steps 1-2: _load_recipe, the status guard, _load_template
PubLoadRecipe ==
    \E p \in Publishers :
        LET l == load_recipe(disk, RecipeOf(p)) IN
        /\ publishers.proc[p].pc = "idle"
        /\ l.found /\ l.recipe.status = APPROVED /\ template_exists
        /\ publishers' = Step(p, "loaded", l.recipe, <<>>)
        /\ UNCHANGED <<store_vars, engine_vars, orch>>

\* steps 3-5: the web view, the HTML and _save_recipe_page
PubSavePage ==
    \E p \in Publishers :
        LET me == publishers.proc[p]
            recipe_data == recipe_to_web_format(me.recipe) IN
        /\ me.pc = "loaded"
        /\ pages' = save_recipe_page(pages, me.recipe.slug, generate_recipe_html(recipe_data))
        /\ publishers' = Step(p, "page_saved", me.recipe, <<>>)
        /\ UNCHANGED <<disk, index, sitemap, template_exists, last_result, site_origin, rebuilt,
                       engine_vars, orch>>

\* step 6, first half: index = self._load_recipes_index()
PubLoadIndex ==
    \E p \in Publishers :
        LET me == publishers.proc[p] IN
        /\ me.pc = "page_saved"
        /\ publishers' = Step(p, "index_loaded", me.recipe, index)
        /\ UNCHANGED <<store_vars, engine_vars, orch>>

\* step 6, second half: the upsert on the loaded copy and _save_recipes_index
PubSaveIndex ==
    \E p \in Publishers :
        LET me == publishers.proc[p] IN
        /\ me.pc = "index_loaded"
        /\ index' = update_recipes_index(me.index, recipe_to_web_format(me.recipe))
        /\ publishers' = Step(p, "index_saved", me.recipe, <<>>)
        /\ UNCHANGED <<disk, pages, sitemap, template_exists, last_result, site_origin, rebuilt,
                       engine_vars, orch>>

\* step 7, first half: _generate_sitemap loads the index again
PubLoadIndexForSitemap ==
    \E p \in Publishers :
        LET me == publishers.proc[p] IN
        /\ me.pc = "index_saved"
        /\ publishers' = Step(p, "sitemap_loaded", me.recipe, index)
        /\ UNCHANGED <<store_vars, engine_vars, orch>>

\* step 7, second half: the sitemap is written from the loaded copy
PubWriteSitemap ==
    \E p \in Publishers :
        LET me == publishers.proc[p] IN
        /\ me.pc = "sitemap_loaded"
        /\ sitemap' = generate_sitemap(me.index)
        /\ publishers' = Step(p, "sitemap_written", me.recipe, <<>>)
        /\ UNCHANGED <<disk, pages, index, template_exists, last_result, site_origin, rebuilt,
                       engine_vars, orch>>

\* step 8 and the return: transition_status to published (auto_commit is off)
PubTransition ==
    \E p \in Publishers :
        LET me == publishers.proc[p] IN
        /\ me.pc = "sitemap_written"
        /\ disk' = transition_status(disk, me.recipe, PUBLISHED, PublishNote)
        /\ last_result' = Result("publish", RecipeOf(p), TRUE, me.recipe.status, "skipped", NoBatch)
        /\ publishers' = Step(p, "done", me.recipe, <<>>)
        /\ UNCHANGED <<pages, index, sitemap, template_exists, site_origin, rebuilt,
                       engine_vars, orch>>

NextConcurrent ==
    \/ PubLoadRecipe
    \/ PubSavePage
    \/ PubLoadIndex
    \/ PubSaveIndex
    \/ PubLoadIndexForSitemap
    \/ PubWriteSitemap
    \/ PubTransition

\* records r1 and r2 approved, with different slugs, over a fresh site or over
\* a site that already serves another recipe
InitConcurrent ==
    /\ EngineInit
    /\ OrchInit
    /\ PublishersInit
    /\ disk = save_to_file(
                  save_to_file([st \in RecipeStatus |-> EmptyDict],
                               [NewRecipe("r1", "egg-cups", "Egg Cups") EXCEPT !.status = APPROVED]),
                  [NewRecipe("r2", "lemon-muffins", "Lemon Muffins") EXCEPT !.status = APPROVED])
    /\ \/ /\ index = <<>>
          /\ pages = EmptyDict
          /\ sitemap = [exists |-> FALSE, urls |-> <<>>]
          /\ site_origin = "fresh"
       \/ /\ index = <<LegacyView>>
          /\ pages = DictSet(EmptyDict, LegacySlug, generate_recipe_html(LegacyView))
          /\ sitemap = [exists |-> TRUE, urls |-> <<HomeUrl, RecipeUrl(LegacySlug)>>]
          /\ site_origin = "legacy"
    /\ template_exists = TRUE
    /\ last_result = NoResult
    /\ rebuilt = FALSE

SpecConcurrent == InitConcurrent /\ [][NextConcurrent]_vars

BothReturned == \A p \in Publishers : publishers.proc[p].pc = "done"

BothSlugsServed ==
    \A p \in Publishers :
        LET slug == publishers.proc[p].recipe.slug IN
        /\ slug \in IndexSlugs(index)
        /\ RecipeUrl(slug) \in Range(sitemap.urls)

\* C24: when the two publish_recipe calls run one after the other, both slugs
\* are in the index and in the sitemap after both have returned; a lost update
\* needs calls whose steps interleave (C24_Witness reaches one).
C24_SerializedKeepsBoth ==
    (BothReturned /\ publishers.serialized) => BothSlugsServed

\* both records are in published status while index and sitemap hold only one
\* of the two slugs: the index load, modify and save steps of the calls interleaved
C24_Witness ==
    /\ BothReturned
    /\ ~publishers.serialized
    /\ {"r1", "r2"} \subseteq DOMAIN disk[PUBLISHED]
    /\ DOMAIN disk[APPROVED] = {}
    /\ \E p \in Publishers :
           /\ publishers.proc[p].recipe.slug \notin IndexSlugs(index)
           /\ RecipeUrl(publishers.proc[p].recipe.slug) \notin Range(sitemap.urls)
    /\ \E p \in Publishers :
           /\ publishers.proc[p].recipe.slug \in IndexSlugs(index)
           /\ RecipeUrl(publishers.proc[p].recipe.slug) \in Range(sitemap.urls)

====
